---- MODULE Spec2Model ----
(***************************************************************************)
(* Model of the Amazon Price Alert API (src/price_alert_api.py).           *)
(*                                                                         *)
(* The persisted state is the price_alerts table.  Every HTTP handler is   *)
(* one action of Spec (the handler runs alone, start to finish).  SpecConc *)
(* runs create_alert, delete_alert and check_prices statement by statement *)
(* on separate connections (one request of each kind in flight at a time), *)
(* with READ COMMITTED visibility and row locks.                           *)
(* fetchall() is taken to return the rows in id (insertion) order.  The    *)
(* mail transport is either up or down for a whole run (smtp_up); the      *)
(* store may fault at the UPDATE of one row of a check_prices batch.       *)
(*                                                                         *)
(* Prices are integers (exactly representable in the REAL column and in a  *)
(* Python float).  SQL NULL / Python None is the string "NULL" for the     *)
(* text columns and 0 for last_notification (timestamps are >= 1).         *)
(* webhook_url is stored but never read by any handler; ProductPrice.url   *)
(* and ProductPrice.timestamp only appear in the mail text.  They are left *)
(* out of the rows and observations.                                       *)
(***************************************************************************)
EXTENDS Integers, Sequences, FiniteSets, TLC

\* Bounds of the model.
MaxAlerts == 2      \* rows the table may hold
MaxObs    == 2      \* observations in one check_prices request
MaxOps    == 3      \* requests served (also bounds the clock NOW())

NULL == "NULL"

\* Request inputs.
ObsPrices == {1, 2, 3}

\* class PriceAlert(BaseModel): no validator beyond the field types.  The
\* requests drawn: every flag combination on ("Widget", 2) with an email, and
\* with the default flags and no email: ("Widget", 2), an empty product_name,
\* a negative target_price.
PriceAlert ==
    [product_name : {"Widget"}, target_price : {2},
     notify_above : BOOLEAN, notify_below : BOOLEAN, email : {"u@example.com"}]
    \cup
    [product_name : {"Widget", ""}, target_price : {2},
     notify_above : {FALSE}, notify_below : {TRUE}, email : {NULL}]
    \cup
    [product_name : {"Widget"}, target_price : {-5},
     notify_above : {FALSE}, notify_below : {TRUE}, email : {NULL}]

\* class ProductPrice(BaseModel)
ProductPrice == [name : {"Widget"}, current_price : ObsPrices]

\* List[ProductPrice] of length at most MaxObs.
PriceBatches == UNION {[1..n -> ProductPrice] : n \in 0..MaxObs}

VARIABLES
    db,       \* table price_alerts (committed): sequence of rows, row i has id i
    now,      \* number of requests started so far; NOW() of the latest one
    smtp_up,  \* whether the mail transport accepts messages (credentials, network)
    req,      \* the latest request
    resp,     \* the latest response
    sent,     \* the send_email calls made by the latest step, in order
    fault,    \* id of the row whose UPDATE raised in the latest step (0: none)
    chk,      \* locals of the check_prices request in flight (SpecConc)
    del,      \* locals of the delete_alert request in flight (SpecConc)
    crt       \* locals of the create_alert request in flight (SpecConc)

vars == <<db, now, smtp_up, req, resp, sent, fault, chk, del, crt>>

----------------------------------------------------------------------------
\* Python truthiness of an Optional[str]: `if alert.email:`
Truthy(s) == s /= NULL /\ s /= ""

\* Variant of send_email without the try/except: a delivery fault propagates.
send_email_propagates(message, smtp_ok) ==
    [raised |-> IF smtp_ok THEN "none" ELSE "smtplib.SMTPException",
     result |-> smtp_ok, message |-> message]

\* EmailNotifier.send_email: every exception is caught and turned into False.
send_email(message, smtp_ok) ==
    [raised |-> "none", result |-> smtp_ok, message |-> message]

\* The row INSERTed by create_alert; is_active DEFAULT TRUE, last_notification NULL.
NewRow(id, alert) ==
    [id |-> id, product_name |-> alert.product_name,
     target_price |-> alert.target_price,
     notify_above |-> alert.notify_above, notify_below |-> alert.notify_below,
     email |-> alert.email, is_active |-> TRUE, last_notification |-> 0]

\* Variant of SelectActive without the WHERE clause.
SelectActive_all(table) == table

\* SELECT * FROM price_alerts WHERE is_active = TRUE
SelectActive(table) == SelectSeq(table, LAMBDA row : row.is_active)

\* UPDATE price_alerts SET is_active = FALSE WHERE id = %s
Deactivate(table, id) ==
    [i \in DOMAIN table |->
        IF table[i].id = id THEN [table[i] EXCEPT !.is_active = FALSE]
        ELSE table[i]]

\* Variant of UpdateLastNotification without the WHERE clause.
UpdateLastNotification_all(table, id, ts) ==
    [i \in DOMAIN table |-> [table[i] EXCEPT !.last_notification = ts]]

\* UPDATE price_alerts SET last_notification = NOW() WHERE id = %s
UpdateLastNotification(table, id, ts) ==
    [i \in DOMAIN table |->
        IF table[i].id = id THEN [table[i] EXCEPT !.last_notification = ts]
        ELSE table[i]]

\* Mail bodies.
created_message(alert) ==
    [to |-> alert.email, subject |-> "created",
     product_name |-> alert.product_name, target_price |-> alert.target_price,
     direction |-> IF alert.notify_above THEN "superieur" ELSE "inferieur"]

deactivated_message(alert) ==
    [to |-> alert.email, subject |-> "deactivated",
     product_name |-> alert.product_name]

triggered_message(alert, price) ==
    [to |-> alert.email, subject |-> "triggered", alert_id |-> alert.id,
     product_name |-> price.name, current_price |-> price.current_price,
     target_price |-> alert.target_price,
     direction |-> IF alert.notify_above THEN "superieur" ELSE "inferieur"]

\* The response of a handler that an exception left (FastAPI: 500), or `ok`.
Response(raised, ok) ==
    IF raised = "none" THEN ok ELSE [status |-> 500, error |-> raised]

\* The locals of a request that is not running.
ChkIdle == [pc |-> "idle", alerts |-> <<>>, prices |-> <<>>, p |-> 0,
            triggered_alerts |-> <<>>, sent |-> <<>>, updated |-> <<>>,
            ts |-> 0, raised |-> "none"]
DelIdle == [pc |-> "idle", alert_id |-> 0, alert |-> NULL]
CrtIdle == [pc |-> "idle", alert_id |-> 0, alert |-> NULL]

\* startup_event / init_db: CREATE TABLE IF NOT EXISTS
Init ==
    /\ db = <<>>
    /\ now = 0
    /\ smtp_up \in BOOLEAN
    /\ req = [op |-> "startup"]
    /\ resp = [status |-> 200]
    /\ sent = <<>>
    /\ fault = 0
    /\ chk = ChkIdle
    /\ del = DelIdle
    /\ crt = CrtIdle

----------------------------------------------------------------------------
\* POST /alerts/
create_alert ==
    /\ now < MaxOps
    /\ Len(db) < MaxAlerts
    /\ \E alert \in PriceAlert :
         LET alert_id == Len(db) + 1
             mail == send_email(created_message(alert), smtp_up)
         IN  /\ db' = Append(db, NewRow(alert_id, alert))
             /\ sent' = IF Truthy(alert.email) THEN <<mail>> ELSE <<>>
             /\ req' = [op |-> "create_alert", alert |-> alert]
             /\ resp' = Response(IF Truthy(alert.email) THEN mail.raised ELSE "none",
                                 [status |-> 200, alert_id |-> alert_id])
    /\ now' = now + 1
    /\ fault' = 0
    /\ UNCHANGED <<smtp_up, chk, del, crt>>

\* GET /alerts/
get_alerts ==
    /\ now < MaxOps
    /\ req' = [op |-> "get_alerts"]
    /\ resp' = [status |-> 200, body |-> SelectActive(db)]
    /\ sent' = <<>>
    /\ now' = now + 1
    /\ fault' = 0
    /\ UNCHANGED <<db, smtp_up, chk, del, crt>>

\* DELETE /alerts/{alert_id}
delete_alert ==
    /\ now < MaxOps
    /\ \E alert_id \in 1..(MaxAlerts + 1) :
         /\ req' = [op |-> "delete_alert", alert_id |-> alert_id]
         /\ IF alert_id \notin DOMAIN db
            THEN \* fetchone() is None: HTTPException(404), nothing written
                 /\ resp' = [status |-> 404]
                 /\ sent' = <<>>
                 /\ db' = db
            ELSE LET alert == db[alert_id]
                     mail == send_email(deactivated_message(alert), smtp_up)
                 IN  /\ db' = Deactivate(db, alert_id)
                     /\ sent' = IF Truthy(alert.email) THEN <<mail>> ELSE <<>>
                     /\ resp' = Response(IF Truthy(alert.email) THEN mail.raised
                                         ELSE "none", [status |-> 200])
    /\ now' = now + 1
    /\ fault' = 0
    /\ UNCHANGED <<smtp_up, chk, del, crt>>

----------------------------------------------------------------------------
\* check_prices

\* Variants of should_notify: >= for >, and AND for OR.
should_notify_ge(alert, price) ==
    \/ (alert.notify_above /\ price.current_price >= alert.target_price)
    \/ (alert.notify_below /\ price.current_price < alert.target_price)

should_notify_and(alert, price) ==
    /\ (alert.notify_above /\ price.current_price > alert.target_price)
    /\ (alert.notify_below /\ price.current_price < alert.target_price)

\* The trigger condition of one (alert, observation) pair.
should_notify(alert, price) ==
    \/ (alert.notify_above /\ price.current_price > alert.target_price)
    \/ (alert.notify_below /\ price.current_price < alert.target_price)

\* The dict appended to triggered_alerts.
alert_info(alert, price) ==
    [alert_id |-> alert.id, product_name |-> price.name,
     current_price |-> price.current_price, target_price |-> alert.target_price]

\* The locals after the SELECT: the transaction starts here, so NOW() is ts.
ChkStart(table, prices, ts) ==
    [pc |-> "loop", alerts |-> SelectActive(table), prices |-> prices, p |-> 1,
     triggered_alerts |-> <<>>, sent |-> <<>>, updated |-> <<>>,
     ts |-> ts, raised |-> "none"]

\* The p-th iteration of `for alert in alerts: for price in prices:`.
Iterations(st) == Len(st.alerts) * Len(st.prices)
AlertAt(st, p) == st.alerts[((p - 1) \div Len(st.prices)) + 1]
PriceAt(st, p) == st.prices[((p - 1) % Len(st.prices)) + 1]

\* The two `if`s that guard the body of the inner loop.
Fires(st, p) ==
    /\ PriceAt(st, p).name = AlertAt(st, p).product_name
    /\ should_notify(AlertAt(st, p), PriceAt(st, p))

\* First half of the body: append the event, mail it if the alert has an email.
notify_step(alert, price, smtp_ok, st) ==
    LET st1 == [st EXCEPT !.triggered_alerts = Append(@, alert_info(alert, price))]
        mail == send_email(triggered_message(alert, price), smtp_ok)
    IN  IF Truthy(alert.email)
        THEN [st1 EXCEPT !.sent = Append(@, mail), !.raised = mail.raised]
        ELSE st1

\* Second half: the UPDATE, executed in the open transaction (or raising).
update_step(alert, update_ok, st) ==
    IF st.raised /= "none" THEN st
    ELSE IF ~update_ok THEN [st EXCEPT !.raised = "psycopg2.Error"]
    ELSE [st EXCEPT !.updated = Append(@, alert.id)]

\* One iteration of `for alert in alerts: for price in prices:`; update_fail is
\* the id of the row whose UPDATE raises (0: none).
loop_body(st, smtp_ok, update_fail) ==
    LET alert == AlertAt(st, st.p)
        price == PriceAt(st, st.p)
    IN  IF price.name = alert.product_name /\ should_notify(alert, price)
        THEN update_step(alert, alert.id /= update_fail,
                         notify_step(alert, price, smtp_ok, st))
        ELSE st

\* On to the next iteration, unless an exception is leaving the loops.
advance(st) == IF st.raised = "none" THEN [st EXCEPT !.p = @ + 1] ELSE st

\* The nested loops from iteration st.p on.
RECURSIVE for_loops(_, _, _)
for_loops(st, smtp_ok, update_fail) ==
    IF st.raised /= "none" \/ st.p > Iterations(st) THEN st
    ELSE for_loops(advance(loop_body(st, smtp_ok, update_fail)), smtp_ok, update_fail)

\* The transaction's UPDATEs applied to the table.
RECURSIVE ApplyUpdates(_, _, _)
ApplyUpdates(table, ids, ts) ==
    IF ids = <<>> THEN table
    ELSE ApplyUpdates(UpdateLastNotification(table, Head(ids), ts), Tail(ids), ts)

\* conn.commit() when the loops ended normally; otherwise the exception skips
\* it and conn.close() rolls the transaction back.
commit_or_rollback(table, st) ==
    IF st.raised = "none" THEN ApplyUpdates(table, st.updated, st.ts) ELSE table

\* The ids of the rows an UPDATE is executed for when nothing raises.
UpdatedIds(st) == {AlertAt(st, p).id : p \in {q \in 1..Iterations(st) : Fires(st, q)}}

\* POST /check-prices
check_prices ==
    /\ now < MaxOps
    /\ \E prices \in PriceBatches :
       \E st0 \in {ChkStart(db, prices, now + 1)} :
       \E update_fail \in {0} \cup UpdatedIds(st0) :
       \E st \in {for_loops(st0, smtp_up, update_fail)} :
         /\ req' = [op |-> "check_prices", prices |-> prices]
         /\ sent' = st.sent
         /\ fault' = IF st.raised = "psycopg2.Error" THEN update_fail ELSE 0
         /\ db' = commit_or_rollback(db, st)
         /\ resp' = Response(st.raised,
                             [status |-> 200, body |-> st.triggered_alerts])
    /\ now' = now + 1
    /\ UNCHANGED <<smtp_up, chk, del, crt>>

Next == create_alert \/ get_alerts \/ delete_alert \/ check_prices

Spec == Init /\ [][Next]_vars

----------------------------------------------------------------------------
\* create_alert, delete_alert and check_prices statement by statement, each on
\* its own connection; get_alerts is a single SELECT.  A SELECT reads the committed table; an UPDATE takes the row's
\* lock until its transaction ends, and waits while the other holds it.

\* Row ids whose lock the check_prices transaction holds.
ChkLocks == {chk.updated[k] : k \in DOMAIN chk.updated}

\* Row ids whose lock the delete_alert transaction holds.
DelLocks == IF del.pc = "updated" THEN {del.alert_id} ELSE {}

\* create_alert: INSERT ... RETURNING id, in the connection's open transaction
crt_insert ==
    /\ crt.pc = "idle"
    /\ now < MaxOps
    /\ Len(db) < MaxAlerts
    /\ \E alert \in PriceAlert :
         /\ req' = [op |-> "create_alert", alert |-> alert]
         /\ crt' = [pc |-> "inserted", alert_id |-> Len(db) + 1, alert |-> alert]
    /\ now' = now + 1
    /\ sent' = <<>>
    /\ UNCHANGED <<db, smtp_up, resp, fault, chk, del>>

\* create_alert: conn.commit(), the row becomes visible
crt_commit ==
    /\ crt.pc = "inserted"
    /\ db' = Append(db, NewRow(crt.alert_id, crt.alert))
    /\ crt' = [crt EXCEPT !.pc = "committed"]
    /\ sent' = <<>>
    /\ UNCHANGED <<now, smtp_up, req, resp, fault, chk, del>>

\* create_alert: the confirmation mail and the response
crt_respond ==
    /\ crt.pc = "committed"
    /\ \E mail \in {send_email(created_message(crt.alert), smtp_up)} :
         /\ sent' = IF Truthy(crt.alert.email) THEN <<mail>> ELSE <<>>
         /\ resp' = Response(IF Truthy(crt.alert.email) THEN mail.raised ELSE "none",
                             [status |-> 200, alert_id |-> crt.alert_id])
    /\ crt' = CrtIdle
    /\ UNCHANGED <<db, now, smtp_up, req, fault, chk, del>>

\* delete_alert: SELECT * FROM price_alerts WHERE id = %s
del_select ==
    /\ del.pc = "idle"
    /\ now < MaxOps
    /\ \E alert_id \in 1..(MaxAlerts + 1) :
         /\ req' = [op |-> "delete_alert", alert_id |-> alert_id]
         /\ IF alert_id \notin DOMAIN db
            THEN /\ resp' = [status |-> 404]
                 /\ del' = del
            ELSE /\ resp' = resp
                 /\ del' = [pc |-> "fetched", alert_id |-> alert_id,
                            alert |-> db[alert_id]]
    /\ now' = now + 1
    /\ sent' = <<>>
    /\ UNCHANGED <<db, smtp_up, fault, chk, crt>>

\* delete_alert: UPDATE price_alerts SET is_active = FALSE WHERE id = %s
del_update ==
    /\ del.pc = "fetched"
    /\ del.alert_id \notin ChkLocks
    /\ del' = [del EXCEPT !.pc = "updated"]
    /\ sent' = <<>>
    /\ UNCHANGED <<db, now, smtp_up, req, resp, fault, chk, crt>>

\* delete_alert: conn.commit()
del_commit ==
    /\ del.pc = "updated"
    /\ db' = Deactivate(db, del.alert_id)
    /\ del' = [del EXCEPT !.pc = "committed"]
    /\ sent' = <<>>
    /\ UNCHANGED <<now, smtp_up, req, resp, fault, chk, crt>>

\* delete_alert: the confirmation mail and the response
del_respond ==
    /\ del.pc = "committed"
    /\ \E mail \in {send_email(deactivated_message(del.alert), smtp_up)} :
         /\ sent' = IF Truthy(del.alert.email) THEN <<mail>> ELSE <<>>
         /\ resp' = Response(IF Truthy(del.alert.email) THEN mail.raised ELSE "none",
                             [status |-> 200])
    /\ del' = DelIdle
    /\ UNCHANGED <<db, now, smtp_up, req, fault, chk, crt>>

\* check_prices: SELECT * FROM price_alerts WHERE is_active = TRUE
chk_select ==
    /\ chk.pc = "idle"
    /\ now < MaxOps
    /\ \E prices \in PriceBatches :
         /\ req' = [op |-> "check_prices", prices |-> prices]
         /\ chk' = ChkStart(db, prices, now + 1)
    /\ now' = now + 1
    /\ sent' = <<>>
    /\ UNCHANGED <<db, smtp_up, resp, fault, del, crt>>

\* check_prices: one iteration up to and including send_email
chk_iter ==
    /\ chk.pc = "loop"
    /\ chk.p <= Iterations(chk)
    /\ IF Fires(chk, chk.p)
       THEN \E st \in {notify_step(AlertAt(chk, chk.p), PriceAt(chk, chk.p), smtp_up,
                                   [chk EXCEPT !.sent = <<>>])} :
              /\ sent' = st.sent
              /\ chk' = [st EXCEPT !.pc = "update", !.sent = chk.sent \o st.sent]
       ELSE /\ sent' = <<>>
            /\ chk' = advance(chk)
    /\ UNCHANGED <<db, now, smtp_up, req, resp, fault, del, crt>>

\* check_prices: the iteration's UPDATE ... SET last_notification = NOW()
chk_update ==
    /\ chk.pc = "update"
    /\ AlertAt(chk, chk.p).id \notin DelLocks
    /\ chk' = [advance(update_step(AlertAt(chk, chk.p), TRUE, chk)) EXCEPT !.pc = "loop"]
    /\ sent' = <<>>
    /\ UNCHANGED <<db, now, smtp_up, req, resp, fault, del, crt>>

\* check_prices: conn.commit() and the response
chk_commit ==
    /\ chk.pc = "loop"
    /\ chk.p > Iterations(chk)
    /\ db' = commit_or_rollback(db, chk)
    /\ resp' = Response(chk.raised, [status |-> 200, body |-> chk.triggered_alerts])
    /\ chk' = ChkIdle
    /\ sent' = <<>>
    /\ UNCHANGED <<now, smtp_up, req, fault, del, crt>>

NextConc ==
    \/ crt_insert \/ crt_commit \/ crt_respond
    \/ get_alerts
    \/ del_select \/ del_update \/ del_commit \/ del_respond
    \/ chk_select \/ chk_iter \/ chk_update \/ chk_commit

SpecConc == Init /\ [][NextConc]_vars
----------------------------------------------------------------------------
\* Properties.  They are stated over the table and the request/response
\* records only, not through the operators of the handlers.

\* The stored alerts with is_active = TRUE, in id order.
ActiveRows == SelectSeq(db, LAMBDA row : row.is_active)

\* The matching rule: same name and
\* (notify_above AND current_price > target_price) OR
\* (notify_below AND current_price < target_price).
Matches(alert, price) ==
    /\ price.name = alert.product_name
    /\ \/ (alert.notify_above /\ price.current_price > alert.target_price)
       \/ (alert.notify_below /\ price.current_price < alert.target_price)

\* The TriggeredEvent of a pair.
EventOf(alert, price) ==
    [alert_id |-> alert.id, product_name |-> price.name,
     current_price |-> price.current_price, target_price |-> alert.target_price]

\* The matching pairs <<alert index, observation index>>.
MatchingPairs(alerts, prices) ==
    {q \in (1..Len(alerts)) \X (1..Len(prices)) : Matches(alerts[q[1]], prices[q[2]])}

\* One event per matching pair, alerts outer, observations inner.
ExpectedEvents(alerts, prices) ==
    LET F == MatchingPairs(alerts, prices)
        Rank(q) == Cardinality({r \in F : r[1] < q[1] \/ (r[1] = q[1] /\ r[2] <= q[2])})
        Pair(k) == CHOOSE q \in F : Rank(q) = k
    IN  [k \in 1..Cardinality(F) |-> EventOf(alerts[Pair(k)[1]], prices[Pair(k)[2]])]

\* The latest request was a check_prices that returned its event list.
CheckReturned == req.op = "check_prices" /\ resp.status = 200

\* Row i has an event for observation j in the returned list.
HasEvent(i, j) ==
    \E k \in DOMAIN resp.body :
        /\ resp.body[k].alert_id = db[i].id
        /\ resp.body[k].current_price = req.prices[j].current_price

\* C1: check_prices returns exactly one event for every (active alert,
\* observation) pair that satisfies the matching rule and none for any other
\* pair, in alerts-outer / observations-inner order; so equality never fires,
\* an alert with both flags yields one event per observation off the target,
\* and repeated observations each yield their own event.
C1_ExactEvents ==
    CheckReturned => resp.body = ExpectedEvents(ActiveRows, req.prices)

\* Two active alerts (one with both flags) each fire on the observation below
\* the target, and neither fires on the observation equal to the target.
C1_Witness ==
    /\ CheckReturned
    /\ Len(ActiveRows) = 2
    /\ req.prices = <<[name |-> "Widget", current_price |-> 2],
                      [name |-> "Widget", current_price |-> 1]>>
    /\ ActiveRows[1].notify_above /\ ActiveRows[1].notify_below
    /\ ActiveRows[1].target_price = 2
    /\ Len(resp.body) = 2
    /\ resp.body[1].alert_id /= resp.body[2].alert_id

\* C2: when mail delivery fails during check_prices (and the store does not
\* fault), the call still returns normally, every event whose mail failed is in
\* the returned list, and last_notification of every triggered alert of the
\* batch is committed.
C2_MailFaultTolerated ==
    (/\ req.op = "check_prices"
     /\ fault = 0
     /\ \E k \in DOMAIN sent : ~sent[k].result)
    => /\ resp.status = 200
       /\ \A k \in DOMAIN sent :
            \E e \in DOMAIN resp.body :
                /\ resp.body[e].alert_id = sent[k].message.alert_id
                /\ resp.body[e].current_price = sent[k].message.current_price
       /\ \A e \in DOMAIN resp.body :
            db[resp.body[e].alert_id].last_notification = now

\* Two different alerts triggered, both mails failed, the call returned.
C2_Witness ==
    /\ CheckReturned
    /\ fault = 0
    /\ \E k, m \in DOMAIN sent :
        /\ ~sent[k].result /\ ~sent[m].result
        /\ sent[k].message.alert_id /= sent[m].message.alert_id
        /\ db[sent[k].message.alert_id].last_notification = now
        /\ db[sent[m].message.alert_id].last_notification = now

\* C3: when the UPDATE of last_notification raises for one triggered alert, the
\* batch does not fail: the call returns the full event list and the other
\* triggered alerts are still updated.
C3_BatchSurvivesWriteFault ==
    (req.op = "check_prices" /\ fault /= 0)
    => /\ resp.status = 200
       /\ resp.body = ExpectedEvents(ActiveRows, req.prices)
       /\ \A e \in DOMAIN resp.body :
            resp.body[e].alert_id /= fault
            => db[resp.body[e].alert_id].last_notification = now

\* C4: once an alert is deactivated, no later request reactivates it, no later
\* get_alerts returns it, and no later check_prices returns an event for it.
C4_DeactivatedStaysOut ==
    [][\A id \in DOMAIN db :
         ~db[id].is_active
         => /\ ~db'[id].is_active
            /\ req'.op = "get_alerts"
               => \A k \in DOMAIN resp'.body : resp'.body[k].id /= id
            /\ (req'.op = "check_prices" /\ resp'.status = 200)
               => \A k \in DOMAIN resp'.body : resp'.body[k].alert_id /= id]_vars

\* A check_prices returned after a deactivation, with an observation that the
\* deactivated alert would have matched.
C4_Witness ==
    /\ CheckReturned
    /\ \E i \in DOMAIN db, j \in DOMAIN req.prices :
        ~db[i].is_active /\ Matches(db[i], req.prices[j])

\* C5 as claimed: create_alert with target_price <= 0 or an empty product_name
\* is rejected with a validation error (422) and stores no row.
C5_InvalidAlertRejected ==
    [][(/\ req'.op = "create_alert"
        /\ (req'.alert.target_price <= 0 \/ req'.alert.product_name = ""))
       => (resp'.status = 422 /\ db' = db)]_vars

\* C6 as claimed: delete_alert succeeds only for an existing active alert; for
\* an absent or already deactivated id it answers 404, leaves the table
\* unchanged and sends no mail.
C6_DeactivateOnlyActive ==
    [][req'.op = "delete_alert"
       => IF req'.alert_id \in DOMAIN db /\ db[req'.alert_id].is_active
          THEN resp'.status = 200
          ELSE resp'.status = 404 /\ db' = db /\ sent' = <<>>]_vars

\* C7: check_prices adds and removes no row and changes no column other than
\* last_notification, and changes that only on alerts with an event in the
\* returned list; when no observation has the name of an active alert it
\* returns an empty list and leaves the table unchanged.
C7_CheckFrame ==
    [][req'.op = "check_prices"
       => /\ Len(db') = Len(db)
          /\ \A i \in DOMAIN db :
               /\ [db'[i] EXCEPT !.last_notification = db[i].last_notification] = db[i]
               /\ db'[i].last_notification /= db[i].last_notification
                  => /\ resp'.status = 200
                     /\ \E k \in DOMAIN resp'.body : resp'.body[k].alert_id = db[i].id
          /\ (\A i \in DOMAIN db, j \in DOMAIN req'.prices :
                db[i].is_active => req'.prices[j].name /= db[i].product_name)
             => (resp'.status = 200 /\ resp'.body = <<>> /\ db' = db)]_vars

\* A batch updated one active alert and left another active alert untouched.
C7_Witness ==
    /\ CheckReturned
    /\ \E i, j \in DOMAIN db :
        /\ db[i].is_active /\ db[j].is_active
        /\ db[i].last_notification = now
        /\ db[j].last_notification /= now

\* C8 as claimed: for an active alert with notify_above, whatever its
\* notify_below, an observation with its name triggers exactly when
\* current_price > target_price.
C8_AboveFiresOnlyAbove ==
    CheckReturned
    => \A i \in DOMAIN db, j \in DOMAIN req.prices :
         (/\ db[i].is_active /\ db[i].notify_above
          /\ req.prices[j].name = db[i].product_name)
         => (HasEvent(i, j) <=> req.prices[j].current_price > db[i].target_price)

\* C8 amended: for an active alert with notify_above, an observation with its
\* name triggers when current_price > target_price; when current_price <=
\* target_price it triggers only if notify_below is also set and current_price
\* < target_price.
C8_AboveFiresAboveOrBelowFlag ==
    CheckReturned
    => \A i \in DOMAIN db, j \in DOMAIN req.prices :
         (/\ db[i].is_active /\ db[i].notify_above
          /\ req.prices[j].name = db[i].product_name)
         => (HasEvent(i, j)
             <=> \/ req.prices[j].current_price > db[i].target_price
                 \/ (db[i].notify_below
                     /\ req.prices[j].current_price < db[i].target_price))

\* The only active alert has notify_above alone; it fired on the observation
\* above its target and not on the one at its target.
C8_Witness ==
    /\ CheckReturned
    /\ Len(ActiveRows) = 1
    /\ ActiveRows[1].notify_above /\ ~ActiveRows[1].notify_below
    /\ Len(req.prices) = 2
    /\ req.prices[1].current_price = ActiveRows[1].target_price
    /\ req.prices[2].current_price > ActiveRows[1].target_price
    /\ Len(resp.body) = 1
    /\ resp.body[1].current_price = req.prices[2].current_price

\* C9 as claimed: once the deactivation of an alert is committed, no
\* "triggered" mail is sent for it and its last_notification is not modified,
\* also when delete_alert and check_prices run concurrently.
C9_NothingAfterDeactivation ==
    [][\A id \in DOMAIN db :
         ~db[id].is_active
         => /\ db'[id].last_notification = db[id].last_notification
            /\ \A k \in DOMAIN sent' :
                 ~(/\ sent'[k].message.subject = "triggered"
                   /\ sent'[k].message.alert_id = id)]_vars

\* C10 as claimed: the direction stated in a "triggered" mail is the condition
\* that fired: above when current_price > target_price, below when
\* current_price < target_price.
C10_DirectionIsFiredCondition ==
    \A k \in DOMAIN sent :
        sent[k].message.subject = "triggered"
        => sent[k].message.direction =
             (IF sent[k].message.current_price > sent[k].message.target_price
              THEN "superieur" ELSE "inferieur")
====
